---- MODULE Spec2Model ----
(***************************************************************************)
(* The function sort of egglog (src/sort/fn.rs): function names with       *)
(* partially applied arguments stored as values.  A value of the sort is   *)
(* an index into an IndexSet of (Symbol, Vec<(ArcSort, Value)>) guarded by *)
(* a Mutex.  The module models the interned store, canonicalization, the   *)
(* constructor's type constraint, the apply primitive with its call        *)
(* bridge, and term extraction.                                            *)
(***************************************************************************)
EXTENDS Integers, Sequences, FiniteSets, TLC

VARIABLES
    debug_assertions, \* build configuration: Value carries a `tag` field iff TRUE
    functions,        \* FunctionSort.functions: the IndexSet, as a sequence
    unionfind,        \* the engine's union-find over eq-sort ids: id -> leader
    last,             \* record of the operation that has just run
    fatal,            \* "none", or the reason the engine step aborted (panic)
    tc,               \* type-check harness: the call site and its constraints
    ex,               \* extraction harness: the extractor and the result
    lock,             \* the Mutex of `functions`: 0 = free, else the holder
    ctx               \* evaluation contexts: each one's operation and position

vars == <<debug_assertions, functions, unionfind, last, fatal, tc, ex, lock, ctx>>

-----------------------------------------------------------------------------
(* Bounds of the model *)

\* constructor calls grow the table to at most MaxStore entries (the entries
\* canonicalization appends come on top)
MaxStore == 2
\* canonicalization grows the table to at most MaxTable entries
MaxTable == MaxStore + 2

-----------------------------------------------------------------------------
(* Sorts, values, function values *)

\* the name of the one declared function sort: (sort Fn (UnstableFn (i64) i64))
FnName == "Fn"
\* FunctionSort.inputs and FunctionSort.output of that declaration
FnSort == [name |-> FnName, inputs |-> <<"i64">>, output |-> "i64"]

\* the sorts partial arguments are drawn from: a primitive sort, an eq sort,
\* and the function sort itself (a nested function value)
ArgSorts == {"i64", "T", FnName}

\* s.is_eq_sort()
is_eq_sort(s) == s = "T"

\* Sort::is_eq_container_sort: self.inputs.iter().any(|s| s.is_eq_sort())
is_eq_container_sort(function) ==
    \E i \in 1..Len(function.inputs) : is_eq_sort(function.inputs[i])

NoTag == "-"

\* Value { #[cfg(debug_assertions)] tag, bits }
Value(sort, bits) ==
    [tag |-> IF debug_assertions THEN sort ELSE NoTag, bits |-> bits]

\* ValueFunction(Symbol, Vec<(ArcSort, Value)>)
ValueFunction(name, args) == [name |-> name, args |-> args]

\* the Vec<&Value> of hashable(): the values without their sorts
ValuesOf(args) == [i \in 1..Len(args) |-> args[i].value]
SortsOf(args) == [i \in 1..Len(args) |-> args[i].sort]

\* ValueFunction::hashable: the name and the values, the arcsorts removed;
\* Hash and PartialEq are both defined through it
hashable(vf) == <<vf.name, ValuesOf(vf.args)>>

\* PartialEq for ValueFunction
vf_eq(a, b) == hashable(a) = hashable(b)

-----------------------------------------------------------------------------
(* The interned store *)

\* IndexSet::get_index_of: the 0-based index of the entry equal to vf
IndexOf(fs, vf) == CHOOSE i \in 0..(Len(fs) - 1) : vf_eq(fs[i + 1], vf)

Contains(fs, vf) == \E i \in 1..Len(fs) : vf_eq(fs[i], vf)

\* a set that never finds the equal entry: every insert appends
insert_full_append(fs, vf) == [index |-> Len(fs), set |-> Append(fs, vf)]

\* a set that puts a new entry in front of the others, moving them up by one
insert_full_front(fs, vf) ==
    IF Contains(fs, vf)
    THEN [index |-> IndexOf(fs, vf), set |-> fs]
    ELSE [index |-> 0, set |-> <<vf>> \o fs]

\* IndexSet::insert_full: the index of the equal entry when there is one (the
\* set is left as it is, the argument dropped), else the value is appended
insert_full(fs, vf) ==
    IF Contains(fs, vf)
    THEN [index |-> IndexOf(fs, vf), set |-> fs]
    ELSE [index |-> Len(fs), set |-> Append(fs, vf)]

\* IntoSort::store: insert under the lock, return Value{tag: sort.name, bits: i}
store(vf, fs) ==
    LET r == insert_full(fs, vf)
    IN  [value |-> Value(FnName, r.index), functions |-> r.set]

\* does get_index(value.bits).unwrap() succeed
InRange(fs, value) == value.bits \in 0..(Len(fs) - 1)

\* FunctionSort::get_value: functions.get_index(bits).unwrap().clone()
get_value(fs, value) == fs[value.bits + 1]

\* FromSort::load
load(fs, value) == get_value(fs, value)

\* an inner_values that returns the child values without their sorts
inner_values_unpaired(fs, value) == ValuesOf(fs[value.bits + 1].args)

\* Sort::inner_values
inner_values(fs, value) == fs[value.bits + 1].args

\* Sort::serialized_name
serialized_name(fs, value) == get_value(fs, value).name

-----------------------------------------------------------------------------
(* The union-find of the engine (a collaborator of this sort) *)

\* the ids of the eq sort T
Ids == {0, 1}

\* UnionFind::find: the leader of the class of id
find(uf, id) == uf[id]

\* UnionFind::union: the classes of a and b merged, the smaller leader kept
union(uf, a, b) ==
    LET la == find(uf, a)
        lb == find(uf, b)
        l  == IF la < lb THEN la ELSE lb
    IN  [i \in Ids |-> IF uf[i] = la \/ uf[i] = lb THEN l ELSE uf[i]]

\* EqSort::canonicalize: the value replaced by its leader; changed iff it moved
EqSort_canonicalize(value, uf) ==
    LET l == find(uf, value.bits)
    IN  [changed |-> l # value.bits, value |-> [value EXCEPT !.bits = l]]

-----------------------------------------------------------------------------
(* Canonicalization *)

RECURSIVE sort_canonicalize(_, _, _, _)
RECURSIVE CanonicalizeInputs(_, _, _, _, _, _)

\* the loop of FunctionSort::canonicalize over the inputs of the value:
\*   changed |= s.canonicalize(&mut v, unionfind); new_outputs.push((s, v))
\* a child of this same sort stores into `functions` while it is canonicalized
CanonicalizeInputs(inputs, i, changed, new_outputs, fs, uf) ==
    IF i > Len(inputs)
    THEN [changed |-> changed, new_outputs |-> new_outputs, functions |-> fs]
    ELSE LET c == sort_canonicalize(inputs[i].sort, inputs[i].value, fs, uf)
         IN  CanonicalizeInputs(inputs, i + 1, changed \/ c.changed,
                 Append(new_outputs, [sort |-> inputs[i].sort, value |-> c.value]),
                 c.functions, uf)

\* a canonicalize whose store never looks for an equal entry
canonicalize_always_appends(value, fs, uf) ==
    LET vf  == get_value(fs, value)
        r   == CanonicalizeInputs(vf.args, 1, FALSE, <<>>, fs, uf)
        ins == insert_full_append(r.functions, ValueFunction(vf.name, r.new_outputs))
    IN  [changed |-> r.changed, value |-> Value(FnName, ins.index),
         functions |-> ins.set]

\* Sort for FunctionSort::canonicalize: the value is read, each child is
\* canonicalized by its own sort, the tuple is stored again and the caller's
\* value overwritten with the handle store returns
canonicalize(value, fs, uf) ==
    LET vf == get_value(fs, value)
        r  == CanonicalizeInputs(vf.args, 1, FALSE, <<>>, fs, uf)
        st == store(ValueFunction(vf.name, r.new_outputs), r.functions)
    IN  [changed |-> r.changed, value |-> st.value, functions |-> st.functions]

\* s.canonicalize(&mut v, unionfind) for a child of sort s: dynamic dispatch
sort_canonicalize(sort, value, fs, uf) ==
    IF sort = FnName
    THEN canonicalize(value, fs, uf)
    ELSE IF is_eq_sort(sort)
    THEN LET e == EqSort_canonicalize(value, uf)
         IN  [changed |-> e.changed, value |-> e.value, functions |-> fs]
    ELSE [changed |-> FALSE, value |-> value, functions |-> fs]

-----------------------------------------------------------------------------
(* Type constraints *)

\* AtomTerm: a literal or a variable.  `sort` is the sort the rest of the
\* program gives the term (a string literal is a String, an integer literal
\* an i64, a variable whatever its binding says)
LitString(name) == [kind |-> "LitString", sym |-> name, sort |-> "String"]
LitInt == [kind |-> "LitInt", sym |-> "1", sort |-> "i64"]
Var(sort) == [kind |-> "Var", sym |-> "x", sort |-> sort]

\* constraint::assign(term, sort)
assign(term, sort) == [kind |-> "assign", term |-> term, sort |-> sort]

\* constraint::impossible(ImpossibleConstraint::ArityMismatch{atom, expected})
ArityMismatch(expected) ==
    [kind |-> "impossible", error |-> "ArityMismatch", expected |-> expected]

\* constraint::impossible(ImpossibleConstraint::FunctionMismatch{..})
FunctionMismatch(expected_output, expected_input, actual_output, actual_input) ==
    [kind |-> "impossible", error |-> "FunctionMismatch",
     expected_output |-> expected_output, expected_input |-> expected_input,
     actual_output |-> actual_output, actual_input |-> actual_input]

\* the constraint solver: an assign holds when the term has that sort, an
\* impossible constraint never holds
Satisfiable(constraints) ==
    \A i \in 1..Len(constraints) :
        /\ constraints[i].kind = "assign"
        /\ constraints[i].term.sort = constraints[i].sort

\* iter().skip(n)
Skip(seq, n) == SubSeq(seq, n + 1, Len(seq))
\* iter().take(n)
Take(seq, n) == SubSeq(seq, 1, IF n < Len(seq) THEN n ELSE Len(seq))

\* a constructor constraint that never consults the signature table
FunctionCTorTypeConstraint_get_fallback(arguments, func_types, function) ==
    IF Len(arguments) < 2
    THEN <<ArityMismatch(2)>>
    ELSE <<assign(arguments[1], "String"),
           assign(arguments[Len(arguments)], function.name)>>

\* a constructor constraint that compares the declared inputs with the first
\* inputs of the full signature instead of those after the partial arguments
FunctionCTorTypeConstraint_get_prefix(arguments, func_types, function) ==
    IF Len(arguments) < 2
    THEN <<ArityMismatch(2)>>
    ELSE
    LET output_sort_constraint == assign(arguments[Len(arguments)], function.name)
        name == arguments[1].sym
    IN  IF arguments[1].kind = "LitString" /\ name \in DOMAIN func_types
        THEN LET func_type == func_types[name]
                 n_partial_args == Len(arguments) - 2
                 actual_input == Take(func_type.input, Len(function.inputs))
             IN  IF Len(function.inputs) + n_partial_args # Len(func_type.input)
                 THEN <<ArityMismatch(Len(function.inputs) + Len(func_type.input) + 1)>>
                 ELSE IF function.output # func_type.output
                         \/ function.inputs # actual_input
                 THEN <<FunctionMismatch(function.output, function.inputs,
                                         func_type.output, actual_input)>>
                 ELSE [i \in 1..n_partial_args |->
                          assign(arguments[i + 1], func_type.input[i])]
                      \o <<output_sort_constraint>>
        ELSE <<assign(arguments[1], "String"), output_sort_constraint>>

\* a constructor constraint that leaves the partial-argument terms unbound on
\* the known-signature path
FunctionCTorTypeConstraint_get_unbound(arguments, func_types, function) ==
    IF Len(arguments) < 2
    THEN <<ArityMismatch(2)>>
    ELSE
    LET output_sort_constraint == assign(arguments[Len(arguments)], function.name)
        name == arguments[1].sym
    IN  IF arguments[1].kind = "LitString" /\ name \in DOMAIN func_types
        THEN LET func_type == func_types[name]
                 n_partial_args == Len(arguments) - 2
                 actual_input == Skip(func_type.input, n_partial_args)
             IN  IF Len(function.inputs) + n_partial_args # Len(func_type.input)
                 THEN <<ArityMismatch(Len(function.inputs) + Len(func_type.input) + 1)>>
                 ELSE IF function.output # func_type.output
                         \/ function.inputs # actual_input
                 THEN <<FunctionMismatch(function.output, function.inputs,
                                         func_type.output, actual_input)>>
                 ELSE <<output_sort_constraint>>
        ELSE <<assign(arguments[1], "String"), output_sort_constraint>>

\* a constructor constraint that compares the signatures before the counts
FunctionCTorTypeConstraint_get_signature_first(arguments, func_types, function) ==
    IF Len(arguments) < 2
    THEN <<ArityMismatch(2)>>
    ELSE
    LET output_sort_constraint == assign(arguments[Len(arguments)], function.name)
        name == arguments[1].sym
    IN  IF arguments[1].kind = "LitString" /\ name \in DOMAIN func_types
        THEN LET func_type == func_types[name]
                 n_partial_args == Len(arguments) - 2
                 actual_input == Skip(func_type.input, n_partial_args)
             IN  IF function.output # func_type.output
                    \/ function.inputs # actual_input
                 THEN <<FunctionMismatch(function.output, function.inputs,
                                         func_type.output, actual_input)>>
                 ELSE IF Len(function.inputs) + n_partial_args # Len(func_type.input)
                 THEN <<ArityMismatch(Len(function.inputs) + Len(func_type.input) + 1)>>
                 ELSE [i \in 1..n_partial_args |->
                          assign(arguments[i + 1], func_type.input[i])]
                      \o <<output_sort_constraint>>
        ELSE <<assign(arguments[1], "String"), output_sort_constraint>>

\* FunctionCTorTypeConstraint::get.  arguments = the name term, the partial
\* argument terms, the result term; func_types = typeinfo.func_types;
\* function = the FunctionSort the primitive belongs to
FunctionCTorTypeConstraint_get(arguments, func_types, function) ==
    IF Len(arguments) < 2
    THEN <<ArityMismatch(2)>>
    ELSE
    LET output_sort_constraint == assign(arguments[Len(arguments)], function.name)
        name == arguments[1].sym
    IN  IF arguments[1].kind = "LitString" /\ name \in DOMAIN func_types
        THEN LET func_type == func_types[name]
                 n_partial_args == Len(arguments) - 2
                 expected_output == function.output
                 expected_input == function.inputs
                 actual_output == func_type.output
                 actual_input == Skip(func_type.input, n_partial_args)
             IN  IF Len(function.inputs) + n_partial_args # Len(func_type.input)
                 THEN <<ArityMismatch(Len(function.inputs) + Len(func_type.input) + 1)>>
                 ELSE IF expected_output # actual_output \/ expected_input # actual_input
                 THEN <<FunctionMismatch(expected_output, expected_input,
                                         actual_output, actual_input)>>
                 ELSE [i \in 1..n_partial_args |->
                          assign(arguments[i + 1], func_type.input[i])]
                      \o <<output_sort_constraint>>
        ELSE <<assign(arguments[1], "String"), output_sort_constraint>>

\* Apply::get_type_constraints: the sorts of SimpleTypeConstraint
Apply_sorts(function) == <<function.name>> \o function.inputs \o <<function.output>>

\* SimpleTypeConstraint::get: as many terms as sorts, each term of its sort
SimpleTypeConstraint_get(sorts, arguments) ==
    IF Len(arguments) # Len(sorts)
    THEN <<ArityMismatch(Len(sorts))>>
    ELSE [i \in 1..Len(sorts) |-> assign(arguments[i], sorts[i])]

-----------------------------------------------------------------------------
(* The callables of the program and the call bridge *)

\* typeinfo.func_types: the declared functions, by name
FuncTypes ==
    [n \in {"f", "h"} |->
        IF n = "f" THEN [input |-> <<"T", "i64">>, output |-> "i64"]
        ELSE [input |-> <<"i64", "i64">>, output |-> "T"]]

\* typeinfo.primitives: callables that have no entry in func_types
Primitives == [n \in {"p"} |-> [input |-> <<"i64", "i64">>, output |-> "i64"]]

Callables == [n \in DOMAIN FuncTypes \cup DOMAIN Primitives |->
                 IF n \in DOMAIN FuncTypes THEN FuncTypes[n] ELSE Primitives[n]]

\* the names a string value can hold at run time; "u" names no callable
Names == {"f", "h", "p", "u"}

RECURSIVE WeightedSum(_, _)
WeightedSum(values, i) ==
    IF i > Len(values) THEN 0 ELSE i * (values[i].bits + 1) + WeightedSum(values, i + 1)

\* what the callable `name` returns for these argument values: some function
\* of the name and of the values in their order
Callee(name, values) ==
    [tag |-> IF debug_assertions THEN Callables[name].output ELSE NoTag,
     bits |-> (WeightedSum(values, 1) + (IF name = "f" THEN 1 ELSE 0)) % 3]

\* ResolvedCall::from_resolution(name, types, typeinfo): the callable of that
\* name whose input sorts and output sort are `types`; "none" when there is none
from_resolution(name, types) ==
    IF name \in DOMAIN Callables
       /\ Callables[name].input \o <<Callables[name].output>> = types
    THEN name
    ELSE "none"

\* why the bridge fails for this call, "none" when it does not
BridgeFailure(name, types, args) ==
    IF name \notin DOMAIN Callables THEN "unresolved name"
    ELSE IF Len(args) # Len(Callables[name].input) THEN "argument count mismatch"
    ELSE IF from_resolution(name, types) = "none" THEN "sort mismatch"
    ELSE "none"

\* a bridge that runs whatever callable has the name, checking neither the
\* sorts nor the number of arguments
call_fn_unchecked(name, types, args) ==
    IF name \notin DOMAIN Callables
    THEN [ok |-> FALSE, panic |-> "unresolved name", calls |-> <<>>]
    ELSE [ok |-> TRUE, panic |-> "none",
          calls |-> <<[name |-> name, sorts |-> Take(types, Len(args)), args |-> args]>>,
          value |-> Callee(name, args)]

\* call_fn: resolve the callable from the types, make one variable per
\* argument (the first args.len() types), lower the call, run it with `args`
\* on a fresh stack and pop the result; every failure is an unwrap panic
call_fn(name, types, args) ==
    LET resolved_call == from_resolution(name, types)
        arg_vars == Take(types, Len(args))
    IN  IF resolved_call = "none" \/ Len(arg_vars) # Len(Callables[resolved_call].input)
        THEN [ok |-> FALSE, panic |-> BridgeFailure(name, types, args),
              calls |-> <<>>]
        ELSE [ok |-> TRUE, panic |-> "none",
              calls |-> <<[name |-> resolved_call, sorts |-> arg_vars, args |-> args]>>,
              value |-> Callee(resolved_call, args)]

\* an apply that puts the call-site values before the stored ones
apply_args_first(fn_value, arg_values, fs) ==
    LET vf == get_value(fs, fn_value)
        types == SortsOf(vf.args) \o FnSort.inputs \o <<FnSort.output>>
        values == arg_values \o ValuesOf(vf.args)
    IN  [name |-> vf.name, types |-> types, values |-> values,
         call |-> call_fn(vf.name, types, values)]

\* FunctionSort::apply: the stored name and partial args, the types (stored
\* sorts, declared inputs, output) and the values (stored, then call-site)
apply(fn_value, arg_values, fs) ==
    LET vf == get_value(fs, fn_value)
        types == SortsOf(vf.args) \o FnSort.inputs \o <<FnSort.output>>
        values == ValuesOf(vf.args) \o arg_values
    IN  [name |-> vf.name, types |-> types, values |-> values,
         call |-> call_fn(vf.name, types, values)]

-----------------------------------------------------------------------------
(* The primitives *)

\* Ctor::apply: the name is loaded from values[0], every further value is
\* paired with its sort, and the pair (name, args) is stored; the one check is
\* assert!(values.len() == sorts.0.len()), on what the engine passes in
Ctor_apply(values, sorts, fs) ==
    LET name == values[1]
        args == [i \in 1..(Len(values) - 1) |->
                    [sort |-> sorts[i + 1], value |-> values[i + 1]]]
        st == store(ValueFunction(name, args), fs)
    IN  IF Len(values) # Len(sorts)
        THEN [panic |-> "assertion failed: values.len() == sorts.0.len()",
              functions |-> fs]
        ELSE [panic |-> "none", value |-> st.value, functions |-> st.functions]

\* an apply primitive that does not ask for the evaluation context
Apply_apply_any_context(values, egraph, fs) ==
    LET a == apply(values[1], Skip(values, 1), fs)
    IN  [ok |-> a.call.ok, panic |-> a.call.panic, entered |-> TRUE,
         name |-> a.name, types |-> a.types, values |-> a.values,
         call |-> a.call]

\* Apply::apply: egraph.expect(..) panics without an evaluation context, else
\* self.function.apply(&values[0], &values[1..], egraph)
Apply_apply(values, egraph, fs) ==
    IF ~egraph
    THEN [ok |-> FALSE, panic |-> "unstable-app is not supported yet in facts.",
          entered |-> FALSE]
    ELSE LET a == apply(values[1], Skip(values, 1), fs)
         IN  [ok |-> a.call.ok, panic |-> a.call.panic, entered |-> TRUE,
              name |-> a.name, types |-> a.types, values |-> a.values,
              call |-> a.call]

-----------------------------------------------------------------------------
(* The engine run: constructor and apply call sites are type-checked and     *)
(* run, the engine unions eq-sort ids and canonicalizes stored values        *)

I64Vals == {0, 1}

\* the values of a sort that exist in the engine
ValuesOfSort(sort) ==
    IF sort = "i64" THEN {Value("i64", v) : v \in I64Vals}
    ELSE IF sort = "T" THEN {Value("T", i) : i \in Ids}
    ELSE IF sort = FnName THEN {Value(FnName, h) : h \in 0..(Len(functions) - 1)}
    ELSE {}

\* the constructor call sites of the program: the name term and the sorts of
\* the partial-argument terms
CtorSites ==
    { [name_term |-> LitString("f"), sorts |-> <<"T">>],
      [name_term |-> LitString("f"), sorts |-> <<>>],
      [name_term |-> LitString("f"), sorts |-> <<"i64">>],
      [name_term |-> LitString("h"), sorts |-> <<"i64">>],
      [name_term |-> LitString("p"), sorts |-> <<"i64">>],
      [name_term |-> LitString("p"), sorts |-> <<"T">>],
      [name_term |-> LitString("p"), sorts |-> <<FnName>>],
      [name_term |-> Var("String"), sorts |-> <<>>] }

\* the argument sort lists of the apply call sites of the program
ApplyArgSorts == {<<>>, <<"i64">>, <<"T">>, <<"i64", "i64">>}

\* the sequences of values of the sorts `sorts`
ValueLists(sorts) ==
    {vs \in [1..Len(sorts) -> UNION {ValuesOfSort(s) : s \in ArgSorts}] :
        \A i \in 1..Len(sorts) : vs[i] \in ValuesOfSort(sorts[i])}

VarTerms(sorts) == [i \in 1..Len(sorts) |-> Var(sorts[i])]

CtorArguments(name_term, sorts) == <<name_term>> \o VarTerms(sorts) \o <<Var(FnName)>>

ApplyArguments(sorts) == <<Var(FnName)>> \o VarTerms(sorts) \o <<Var(FnSort.output)>>

Idle == [op |-> "idle"]

Running == fatal = "none"

Init ==
    /\ debug_assertions \in BOOLEAN
    /\ functions = <<>>
    /\ unionfind = [i \in Ids |-> i]
    /\ last = [op |-> "init"]
    /\ fatal = "none"
    /\ tc = Idle
    /\ ex = Idle
    /\ lock = 0
    /\ ctx = Idle

\* a constructor call site the type checker rejects: a static type error
CtorRejected ==
    /\ Running
    /\ \E site \in CtorSites :
        LET cs == FunctionCTorTypeConstraint_get(
                      CtorArguments(site.name_term, site.sorts), FuncTypes, FnSort)
        IN  /\ ~Satisfiable(cs)
            /\ last' = [op |-> "ctor_rejected", site |-> site, constraints |-> cs]
    /\ UNCHANGED <<debug_assertions, functions, unionfind, fatal, tc, ex, lock, ctx>>

\* a constructor call site that type-checks, run on some values: Ctor::apply
CtorCall ==
    /\ Running
    /\ \E site \in CtorSites :
        /\ Satisfiable(FunctionCTorTypeConstraint_get(
               CtorArguments(site.name_term, site.sorts), FuncTypes, FnSort))
        /\ \E name \in Names, vs \in ValueLists(site.sorts) :
            /\ site.name_term.kind = "LitString" => name = site.name_term.sym
            /\ LET st == Ctor_apply(<<name>> \o vs, <<"String">> \o site.sorts,
                                    functions)
               IN  /\ Len(st.functions) <= MaxStore \/ st.functions = functions
                   /\ functions' = st.functions
                   /\ fatal' = st.panic
                   /\ last' = IF st.panic = "none"
                              THEN [op |-> "ctor", site |-> site, name |-> name,
                                    values |-> vs, value |-> st.value]
                              ELSE [op |-> "ctor_panic", site |-> site, name |-> name,
                                    values |-> vs]
    /\ UNCHANGED <<debug_assertions, unionfind, tc, ex, lock, ctx>>

\* the engine merges two eq-sort classes
Union ==
    /\ Running
    /\ \E a, b \in Ids :
        /\ find(unionfind, a) # find(unionfind, b)
        /\ unionfind' = union(unionfind, a, b)
        /\ last' = [op |-> "union", a |-> a, b |-> b]
    /\ UNCHANGED <<debug_assertions, functions, fatal, tc, ex, lock, ctx>>

\* the rebuild pass canonicalizes a stored value of the sort
Canonicalize ==
    /\ Running
    /\ \E h \in 0..(Len(functions) - 1) :
        LET value == Value(FnName, h)
            r == canonicalize(value, functions, unionfind)
        IN  /\ Len(r.functions) <= MaxTable \/ r.functions = functions
            /\ functions' = r.functions
            /\ last' = [op |-> "canonicalize", before |-> value,
                        before_vf |-> get_value(functions, value),
                        before_len |-> Len(functions),
                        changed |-> r.changed, value |-> r.value]
    /\ UNCHANGED <<debug_assertions, unionfind, fatal, tc, ex, lock, ctx>>

\* an apply call site the type checker rejects
ApplyRejected ==
    /\ Running
    /\ \E sorts \in ApplyArgSorts :
        LET cs == SimpleTypeConstraint_get(Apply_sorts(FnSort), ApplyArguments(sorts))
        IN  /\ ~Satisfiable(cs)
            /\ last' = [op |-> "apply_rejected", sorts |-> sorts, constraints |-> cs]
    /\ UNCHANGED <<debug_assertions, functions, unionfind, fatal, tc, ex, lock, ctx>>

\* an apply call site that type-checks, run on a stored function value
ApplyCall ==
    /\ Running
    /\ \E sorts \in ApplyArgSorts, egraph \in BOOLEAN :
        /\ Satisfiable(SimpleTypeConstraint_get(Apply_sorts(FnSort), ApplyArguments(sorts)))
        /\ \E fn_value \in ValuesOfSort(FnName), vs \in ValueLists(sorts) :
            LET r == Apply_apply(<<fn_value>> \o vs, egraph, functions)
            IN  /\ last' = [op |-> "apply", fn |-> fn_value, args |-> vs,
                            egraph |-> egraph, result |-> r]
                /\ fatal' = r.panic
    /\ UNCHANGED <<debug_assertions, functions, unionfind, tc, ex, lock, ctx>>

Next ==
    \/ CtorRejected
    \/ CtorCall
    \/ Union
    \/ Canonicalize
    \/ ApplyRejected
    \/ ApplyCall

Spec == Init /\ [][Next]_vars

-----------------------------------------------------------------------------
(* The type checker on one constructor call site (SpecTC): the call site,   *)
(* the signature table and the declared sort are drawn from bounded sets,   *)
(* and the constraint of the constructor is computed for them               *)

\* a call site has at most MaxTerms partial-argument terms, a declared sort
\* at most MaxTerms inputs
MaxTerms == 2
\* a full signature has at most MaxSig inputs
MaxSig == 3

TCSorts == {"i64", "T"}

SortLists(n) == UNION {[1..k -> TCSorts] : k \in 0..n}

\* the name terms: a literal that may have a signature, a literal that has
\* none, a variable, and a literal that is no string
TCNameTerms == {LitString("f"), LitString("g"), Var("String"), LitInt}

\* the term lists of the call sites: [name, partial arguments.., result]
TCArguments ==
    {<<>>} \cup {<<t>> : t \in TCNameTerms}
    \cup {<<t>> \o VarTerms(ps) \o <<Var(r)>> :
             t \in TCNameTerms, ps \in SortLists(MaxTerms), r \in {FnName, "i64"}}

\* typeinfo.func_types: empty, or one full signature for "f"
TCFuncTypes ==
    {<<>>} \cup {[n \in {"f"} |-> [input |-> is, output |-> o]] :
                    is \in SortLists(MaxSig), o \in TCSorts}

\* the declared function sorts
TCFunctions ==
    {[name |-> FnName, inputs |-> is, output |-> o] :
        is \in SortLists(MaxTerms), o \in TCSorts}

TCInit ==
    /\ debug_assertions = TRUE
    /\ functions = <<>>
    /\ unionfind = [i \in Ids |-> i]
    /\ last = Idle
    /\ fatal = "none"
    /\ tc \in {[phase |-> "site", arguments |-> a, func_types |-> ft, function |-> f] :
                  a \in TCArguments, ft \in TCFuncTypes, f \in TCFunctions}
    /\ ex = Idle
    /\ lock = 0
    /\ ctx = Idle

\* the type checker asks the constructor for its constraints on the call site
TypeCheckCtor ==
    /\ tc.phase = "site"
    /\ tc' = [phase |-> "checked", arguments |-> tc.arguments,
              func_types |-> tc.func_types, function |-> tc.function,
              constraints |-> FunctionCTorTypeConstraint_get(
                                  tc.arguments, tc.func_types, tc.function)]
    /\ UNCHANGED <<debug_assertions, functions, unionfind, last, fatal, ex, lock, ctx>>

TCNext == TypeCheckCtor

SpecTC == TCInit /\ [][TCNext]_vars

-----------------------------------------------------------------------------
(* Extraction (SpecExtract): a stored value, an extractor that knows a best  *)
(* term for some child values, and extract_term run on them                  *)

\* a stored value has at most MaxChildren partial arguments
MaxChildren == 2
\* usize::MAX of the model's machine word (the word is scaled down)
UsizeMax == 15

\* Option::None and Option::Some((cost, term))
None == [some |-> FALSE]
Some(cost, term) == [some |-> TRUE, cost |-> cost, term |-> term]

\* termdag.lit(Literal::String(name))
TermLit(name) == [kind |-> "Lit", string |-> name]
\* termdag.app(head, args)
TermApp(head, args) == [kind |-> "App", head |-> head, args |-> args]
\* the term the extractor has for a child value
TermOf(value) == [kind |-> "Best", of |-> value]

\* usize addition that wraps around
wrapping_add(a, b) == (a + b) % (UsizeMax + 1)

\* usize::saturating_add
saturating_add(a, b) == IF a + b > UsizeMax THEN UsizeMax ELSE a + b

\* the costs an extractor reports
Costs == {0, 1, UsizeMax - 1, UsizeMax}

\* the child values of the values extracted
ExChildren == {[sort |-> "i64", value |-> Value("i64", 0)],
               [sort |-> "T", value |-> Value("T", 0)],
               [sort |-> "T", value |-> Value("T", 1)]}

\* Extractor::find_best results: none, or a cost and a term, per child value
Extractors ==
    [{c.value : c \in ExChildren} ->
        {None} \cup {[some |-> TRUE, cost |-> c] : c \in Costs}]

\* extractor.find_best(value, termdag, &sort)
find_best(extractor, value) ==
    IF extractor[value].some
    THEN Some(extractor[value].cost, TermOf(value))
    ELSE None

RECURSIVE ExtractFold(_, _, _, _, _)
\* the try_fold of extract_term: the first child without a best term ends the
\* fold with None, else the cost is added (saturating) and the term pushed
ExtractFold(inputs, i, cost, args, extractor) ==
    IF i > Len(inputs)
    THEN [some |-> TRUE, cost |-> cost, args |-> args]
    ELSE LET b == find_best(extractor, inputs[i].value)
         IN  IF ~b.some
             THEN None
             ELSE ExtractFold(inputs, i + 1, saturating_add(cost, b.cost),
                              Append(args, b.term), extractor)

\* Sort for FunctionSort::extract_term
extract_term(fs, value, extractor) ==
    LET vf == load(fs, value)
        r == ExtractFold(vf.args, 1, 1, <<TermLit(vf.name)>>, extractor)
    IN  IF r.some
        THEN Some(r.cost, TermApp("unstable-fn", r.args))
        ELSE None

ExInit ==
    /\ debug_assertions \in BOOLEAN
    /\ \E n \in {"f", "p"}, k \in 0..MaxChildren :
          \E args \in [1..k -> ExChildren] :
              functions = <<ValueFunction(n, args)>>
    /\ unionfind = [i \in Ids |-> i]
    /\ last = Idle
    /\ fatal = "none"
    /\ tc = Idle
    /\ ex \in {[phase |-> "ready", extractor |-> e] : e \in Extractors}
    /\ lock = 0
    /\ ctx = Idle

\* the extractor asks the sort for the term of the stored value
ExtractTerm ==
    /\ ex.phase = "ready"
    /\ LET value == Value(FnName, 0)
       IN  ex' = [phase |-> "done", extractor |-> ex.extractor, value |-> value,
                  result |-> extract_term(functions, value, ex.extractor)]
    /\ UNCHANGED <<debug_assertions, functions, unionfind, last, fatal, tc, lock, ctx>>

ExNext == ExtractTerm

SpecExtract == ExInit /\ [][ExNext]_vars

-----------------------------------------------------------------------------
(* Several evaluation contexts on one store (SpecConc).  Each context runs   *)
(* store, load and canonicalize; an operation is a stack of frames, one per  *)
(* call in progress, and each step of a frame is one action.  The table is   *)
(* touched only between lock() and the drop of the guard at the end of       *)
(* store and of get_value.                                                   *)

Ctxs == {1, 2}

\* the values the contexts store: no child, an eq-sort child, a nested value
ConcValues ==
    {ValueFunction("p", <<>>)}
    \cup {ValueFunction("p", <<[sort |-> "T", value |-> Value("T", i)]>>) : i \in Ids}
    \cup {ValueFunction("p", <<[sort |-> FnName, value |-> Value(FnName, h)]>>) :
             h \in 0..(Len(functions) - 1)}

\* a Mutex that lets every caller in
can_lock_always(holder) == TRUE

\* Mutex::lock returns when no context holds the guard
can_lock(holder) == holder = 0

StoreFrame(vf) == [op |-> "store", pc |-> "lock", vf |-> vf, i |-> -1]
GetValueFrame(value) == [op |-> "get_value", pc |-> "lock", value |-> value]
CanonicalizeFrame(value) ==
    [op |-> "canonicalize", pc |-> "start", value |-> value, name |-> "",
     inputs |-> <<>>, i |-> 1, changed |-> FALSE, new_outputs |-> <<>>]

Stack(c) == ctx[c].stack
Top(c) == ctx[c].stack[Len(ctx[c].stack)]
Busy(c) == Len(ctx[c].stack) > 0
At(c, op, pc) == Busy(c) /\ Top(c).op = op /\ Top(c).pc = pc

\* the context's stack with its top frame replaced
WithTop(c, frame) == [ctx[c].stack EXCEPT ![Len(ctx[c].stack)] = frame]

\* the calling frame once the callee has returned rv: what the caller does with
\* the value, and where it goes on
Deliver(caller, rv) ==
    IF caller.op = "canonicalize"
    THEN IF caller.pc = "wait_get_value"
         THEN [caller EXCEPT !.name = rv.name, !.inputs = rv.args, !.pc = "loop"]
         ELSE IF caller.pc = "wait_child"
         THEN [caller EXCEPT !.changed = caller.changed \/ rv.changed,
                             !.new_outputs = Append(caller.new_outputs,
                                 [sort |-> caller.inputs[caller.i].sort, value |-> rv.value]),
                             !.i = caller.i + 1,
                             !.pc = "loop"]
         ELSE [caller EXCEPT !.value = rv, !.pc = "return"]
    ELSE IF caller.op = "serialized_name"
    THEN [caller EXCEPT !.out = rv.name, !.pc = "return"]
    ELSE IF caller.op = "extract_term"
    THEN IF caller.pc = "wait_get_value"
         THEN [caller EXCEPT !.name = rv.name, !.inputs = rv.args, !.pc = "fold"]
         ELSE IF ~rv.some
         THEN [caller EXCEPT !.pc = "none"]
         ELSE [caller EXCEPT !.cost = saturating_add(caller.cost, rv.cost),
                             !.args = Append(caller.args, rv.term),
                             !.i = caller.i + 1,
                             !.pc = "fold"]
    ELSE IF caller.pc = "wait_get_value"
    THEN [caller EXCEPT !.name = rv.name, !.inputs = rv.args, !.pc = "call_fn"]
    ELSE [caller EXCEPT !.out = rv, !.pc = "return"]

\* the top frame returns rv: to the frame below it, or to the context
Return(c, rv) ==
    LET n == Len(ctx[c].stack)
    IN  IF n = 1
        THEN [ctx EXCEPT ![c].stack = <<>>,
                         ![c].result = [op |-> ctx[c].running, arg |-> ctx[c].arg,
                                        ret |-> rv]]
        ELSE [ctx EXCEPT ![c].stack =
                 Append(SubSeq(ctx[c].stack, 1, n - 2),
                        Deliver(ctx[c].stack[n - 1], rv))]

\* the top frame calls: it waits in pc, the callee's frame goes on top
Call(c, pc, frame) ==
    [ctx EXCEPT ![c].stack = Append(WithTop(c, [Top(c) EXCEPT !.pc = pc]), frame)]

RECURSIVE Depth(_, _)
\* the number of nested canonicalize calls a canonicalize of the value makes,
\* each of which stores once
Depth(fs, value) ==
    LET args == fs[value.bits + 1].args
        d(i) == IF args[i].sort = FnName THEN Depth(fs, args[i].value) ELSE 0
    IN  1 + (IF Len(args) = 0 THEN 0
             ELSE IF Len(args) = 1 THEN d(1)
             ELSE d(1) + d(2))

\* the entries the operations in progress may still append
Reserved == ctx[1].need + ctx[2].need

ConcInit ==
    /\ debug_assertions \in BOOLEAN
    /\ functions = <<>>
    /\ unionfind \in {[i \in Ids |-> i], [i \in Ids |-> 0]}
    /\ last = Idle
    /\ fatal = "none"
    /\ tc = Idle
    /\ ex = Idle
    /\ lock = 0
    /\ ctx = [c \in Ctxs |-> [stack |-> <<>>, running |-> "none", arg |-> Idle,
                              need |-> 0, result |-> Idle]]

ConcFrame == <<debug_assertions, unionfind, last, fatal, tc, ex>>

\* a context calls ValueFunction(..).store(sort)
StartStore ==
    \E c \in Ctxs, vf \in ConcValues :
        /\ ~Busy(c)
        /\ Len(functions) + Reserved < MaxStore
        /\ ctx' = [ctx EXCEPT ![c] = [stack |-> <<StoreFrame(vf)>>, running |-> "store",
                                      arg |-> vf, need |-> 1, result |-> Idle]]
        /\ UNCHANGED <<functions, lock>>
        /\ UNCHANGED ConcFrame

\* a context calls ValueFunction::load(sort, value) on an issued handle
StartLoad ==
    \E c \in Ctxs, h \in 0..(Len(functions) - 1) :
        /\ ~Busy(c)
        /\ ctx' = [ctx EXCEPT ![c] = [stack |-> <<GetValueFrame(Value(FnName, h))>>,
                                      running |-> "load", arg |-> Value(FnName, h),
                                      need |-> 0, result |-> Idle]]
        /\ UNCHANGED <<functions, lock>>
        /\ UNCHANGED ConcFrame

\* a context calls sort.canonicalize(&mut value, unionfind) on an issued handle
StartCanonicalize ==
    \E c \in Ctxs, h \in 0..(Len(functions) - 1) :
        /\ ~Busy(c)
        /\ Len(functions) + Reserved + Depth(functions, Value(FnName, h)) <= MaxTable
        /\ ctx' = [ctx EXCEPT ![c] =
                      [stack |-> <<CanonicalizeFrame(Value(FnName, h))>>,
                       running |-> "canonicalize", arg |-> Value(FnName, h),
                       need |-> Depth(functions, Value(FnName, h)), result |-> Idle]]
        /\ UNCHANGED <<functions, lock>>
        /\ UNCHANGED ConcFrame

\* sort.functions.lock().unwrap() in store and in get_value
Lock ==
    \E c \in Ctxs :
        /\ Busy(c) /\ Top(c).pc = "lock"
        /\ can_lock(lock)
        /\ lock' = c
        /\ ctx' = [ctx EXCEPT ![c].stack =
                      WithTop(c, [Top(c) EXCEPT !.pc =
                          IF Top(c).op = "store" THEN "find" ELSE "read"])]
        /\ UNCHANGED functions
        /\ UNCHANGED ConcFrame

\* insert_full, first half: look the value up
StoreFind ==
    \E c \in Ctxs :
        /\ At(c, "store", "find")
        /\ ctx' = [ctx EXCEPT ![c].stack =
                      WithTop(c, [Top(c) EXCEPT
                          !.i = IF Contains(functions, Top(c).vf)
                                THEN IndexOf(functions, Top(c).vf) ELSE -1,
                          !.pc = "push"])]
        /\ UNCHANGED <<functions, lock>>
        /\ UNCHANGED ConcFrame

\* insert_full, second half: append the value when the lookup found none
StorePush ==
    \E c \in Ctxs :
        /\ At(c, "store", "push")
        /\ IF Top(c).i = -1
           THEN /\ functions' = Append(functions, Top(c).vf)
                /\ ctx' = [ctx EXCEPT ![c].stack =
                              WithTop(c, [Top(c) EXCEPT !.i = Len(functions),
                                                        !.pc = "unlock"])]
           ELSE /\ functions' = functions
                /\ ctx' = [ctx EXCEPT ![c].stack =
                              WithTop(c, [Top(c) EXCEPT !.pc = "unlock"])]
        /\ UNCHANGED lock
        /\ UNCHANGED ConcFrame

\* store returns Some(Value{bits: i}); the guard is dropped
StoreReturn ==
    \E c \in Ctxs :
        /\ At(c, "store", "unlock")
        /\ lock' = 0
        /\ ctx' = [Return(c, Value(FnName, Top(c).i)) EXCEPT
                      ![c].need = IF ctx[c].need > 0 THEN ctx[c].need - 1 ELSE 0]
        /\ UNCHANGED functions
        /\ UNCHANGED ConcFrame

\* get_value: functions.get_index(bits).unwrap().clone()
GetValueRead ==
    \E c \in Ctxs :
        /\ At(c, "get_value", "read")
        /\ ctx' = [ctx EXCEPT ![c].stack =
                      WithTop(c, [op |-> "get_value", pc |-> "unlock",
                                  value |-> Top(c).value,
                                  out |-> get_value(functions, Top(c).value)])]
        /\ UNCHANGED <<functions, lock>>
        /\ UNCHANGED ConcFrame

\* a get_value whose guard outlives the call: the caller goes on holding it
GetValueReturn_guard_kept ==
    \E c \in Ctxs :
        /\ At(c, "get_value", "unlock")
        /\ lock' = lock
        /\ ctx' = Return(c, Top(c).out)
        /\ UNCHANGED functions
        /\ UNCHANGED ConcFrame

\* get_value returns the clone; the guard is dropped
GetValueReturn ==
    \E c \in Ctxs :
        /\ At(c, "get_value", "unlock")
        /\ lock' = 0
        /\ ctx' = Return(c, Top(c).out)
        /\ UNCHANGED functions
        /\ UNCHANGED ConcFrame

\* canonicalize: let ValueFunction(name, inputs) = self.get_value(value)
CanonGetValue ==
    \E c \in Ctxs :
        /\ At(c, "canonicalize", "start")
        /\ ctx' = Call(c, "wait_get_value", GetValueFrame(Top(c).value))
        /\ UNCHANGED <<functions, lock>>
        /\ UNCHANGED ConcFrame

\* canonicalize: one turn of the loop, s.canonicalize(&mut v, unionfind) for
\* the next child; a child of this sort is a nested call
CanonChild ==
    \E c \in Ctxs :
        /\ At(c, "canonicalize", "loop")
        /\ Top(c).i <= Len(Top(c).inputs)
        /\ LET child == Top(c).inputs[Top(c).i]
           IN  IF child.sort = FnName
               THEN ctx' = Call(c, "wait_child", CanonicalizeFrame(child.value))
               ELSE LET r == sort_canonicalize(child.sort, child.value, functions,
                                               unionfind)
                    IN  ctx' = [ctx EXCEPT ![c].stack =
                            WithTop(c, Deliver([Top(c) EXCEPT !.pc = "wait_child"],
                                               [changed |-> r.changed, value |-> r.value]))]
        /\ UNCHANGED <<functions, lock>>
        /\ UNCHANGED ConcFrame

\* canonicalize: *value = ValueFunction(name, new_outputs).store(self).unwrap()
CanonStore ==
    \E c \in Ctxs :
        /\ At(c, "canonicalize", "loop")
        /\ Top(c).i > Len(Top(c).inputs)
        /\ ctx' = Call(c, "wait_store",
                       StoreFrame(ValueFunction(Top(c).name, Top(c).new_outputs)))
        /\ UNCHANGED <<functions, lock>>
        /\ UNCHANGED ConcFrame

\* canonicalize returns changed, the caller's value overwritten
CanonReturn ==
    \E c \in Ctxs :
        /\ At(c, "canonicalize", "return")
        /\ ctx' = Return(c, [changed |-> Top(c).changed, value |-> Top(c).value])
        /\ UNCHANGED <<functions, lock>>
        /\ UNCHANGED ConcFrame

ConcNext ==
    \/ StartStore
    \/ StartLoad
    \/ StartCanonicalize
    \/ Lock
    \/ StoreFind
    \/ StorePush
    \/ StoreReturn
    \/ GetValueRead
    \/ GetValueReturn
    \/ CanonGetValue
    \/ CanonChild
    \/ CanonStore
    \/ CanonReturn

SpecConc == ConcInit /\ [][ConcNext]_vars

-----------------------------------------------------------------------------
(* The operations of the sort, call by call (SpecLock).  One context runs     *)
(* store, load, inner_values, serialized_name, canonicalize, extract_term   *)
(* and apply on the store; every call in progress is a frame, every lock()   *)
(* a step that needs the Mutex free.  canonicalize and extract_term recurse  *)
(* into children of this sort, apply into the application it names.          *)

\* the context that runs the operations
LockCtx == 1

\* the name of the apply primitive, which a function value can name
AppName == "unstable-app"

\* the values the context stores
LockValues ==
    ConcValues
    \cup {ValueFunction("p", <<[sort |-> "i64", value |-> Value("i64", 0)]>>),
          ValueFunction("p", <<[sort |-> "T", value |-> Value("T", 1)],
                               [sort |-> "i64", value |-> Value("i64", 0)]>>),
          ValueFunction(AppName, <<>>)}
    \cup {ValueFunction(AppName, <<[sort |-> FnName, value |-> Value(FnName, h)]>>) :
             h \in 0..(Len(functions) - 1)}

InnerValuesFrame(value) == [op |-> "inner_values", pc |-> "lock", value |-> value]
SerializedNameFrame(value) ==
    [op |-> "serialized_name", pc |-> "start", value |-> value, out |-> ""]
ExtractTermFrame(value) ==
    [op |-> "extract_term", pc |-> "start", value |-> value, name |-> "",
     inputs |-> <<>>, i |-> 1, cost |-> 1, args |-> <<>>]
ApplyFrame(fn_value, arg_values) ==
    [op |-> "apply", pc |-> "start", value |-> fn_value, arg_values |-> arg_values,
     name |-> "", inputs |-> <<>>, out |-> Value("i64", 0)]

\* the extractor of the run: it has a term for the child values of bits 0
LockExtractor ==
    [v \in {c.value : c \in ExChildren} |->
        IF v.bits = 0 THEN [some |-> TRUE, cost |-> 1] ELSE None]

\* a context begins an operation: its stack holds the operation's frame
Begin(op, arg, frame, need) ==
    [ctx EXCEPT ![LockCtx] = [stack |-> <<frame>>, running |-> op, arg |-> arg,
                              need |-> need, result |-> Idle]]

Handles == {Value(FnName, h) : h \in 0..(Len(functions) - 1)}

BeginStore ==
    /\ Running /\ ~Busy(LockCtx)
    /\ Len(functions) < MaxStore
    /\ \E vf \in LockValues : ctx' = Begin("store", vf, StoreFrame(vf), 1)
    /\ UNCHANGED <<functions, lock>>
    /\ UNCHANGED ConcFrame

BeginLoad ==
    /\ Running /\ ~Busy(LockCtx)
    /\ \E v \in Handles : ctx' = Begin("load", v, GetValueFrame(v), 0)
    /\ UNCHANGED <<functions, lock>>
    /\ UNCHANGED ConcFrame

BeginInnerValues ==
    /\ Running /\ ~Busy(LockCtx)
    /\ \E v \in Handles : ctx' = Begin("inner_values", v, InnerValuesFrame(v), 0)
    /\ UNCHANGED <<functions, lock>>
    /\ UNCHANGED ConcFrame

BeginSerializedName ==
    /\ Running /\ ~Busy(LockCtx)
    /\ \E v \in Handles : ctx' = Begin("serialized_name", v, SerializedNameFrame(v), 0)
    /\ UNCHANGED <<functions, lock>>
    /\ UNCHANGED ConcFrame

BeginCanonicalize ==
    /\ Running /\ ~Busy(LockCtx)
    /\ \E v \in Handles :
          /\ Len(functions) + Depth(functions, v) <= MaxTable
          /\ ctx' = Begin("canonicalize", v, CanonicalizeFrame(v), Depth(functions, v))
    /\ UNCHANGED <<functions, lock>>
    /\ UNCHANGED ConcFrame

BeginExtractTerm ==
    /\ Running /\ ~Busy(LockCtx)
    /\ \E v \in Handles : ctx' = Begin("extract_term", v, ExtractTermFrame(v), 0)
    /\ UNCHANGED <<functions, lock>>
    /\ UNCHANGED ConcFrame

\* Apply::apply in an evaluation context: self.function.apply(fn, args, egraph)
BeginApply ==
    /\ Running /\ ~Busy(LockCtx)
    /\ \E v \in Handles, x \in ValuesOfSort("i64") :
          ctx' = Begin("apply", <<v, x>>, ApplyFrame(v, <<x>>), 0)
    /\ UNCHANGED <<functions, lock>>
    /\ UNCHANGED ConcFrame

\* inner_values: functions.get_index(bits).unwrap(), .1.clone()
InnerValuesRead ==
    \E c \in Ctxs :
        /\ At(c, "inner_values", "read")
        /\ ctx' = [ctx EXCEPT ![c].stack =
                      WithTop(c, [op |-> "inner_values", pc |-> "unlock",
                                  value |-> Top(c).value,
                                  out |-> inner_values(functions, Top(c).value)])]
        /\ UNCHANGED <<functions, lock>>
        /\ UNCHANGED ConcFrame

\* inner_values returns the clone; the guard is dropped
InnerValuesReturn ==
    \E c \in Ctxs :
        /\ At(c, "inner_values", "unlock")
        /\ lock' = 0
        /\ ctx' = Return(c, Top(c).out)
        /\ UNCHANGED functions
        /\ UNCHANGED ConcFrame

\* serialized_name: self.get_value(value)
SerializedNameGetValue ==
    \E c \in Ctxs :
        /\ At(c, "serialized_name", "start")
        /\ ctx' = Call(c, "wait_get_value", GetValueFrame(Top(c).value))
        /\ UNCHANGED <<functions, lock>>
        /\ UNCHANGED ConcFrame

\* serialized_name returns the name (.0)
SerializedNameReturn ==
    \E c \in Ctxs :
        /\ At(c, "serialized_name", "return")
        /\ ctx' = Return(c, Top(c).out)
        /\ UNCHANGED <<functions, lock>>
        /\ UNCHANGED ConcFrame

\* extract_term: ValueFunction::load(self, &value)
ExtractLoad ==
    \E c \in Ctxs :
        /\ At(c, "extract_term", "start")
        /\ ctx' = Call(c, "wait_get_value", GetValueFrame(Top(c).value))
        /\ UNCHANGED <<functions, lock>>
        /\ UNCHANGED ConcFrame

\* extract_term: one turn of the fold, extractor.find_best(value, termdag,
\* &sort) for the next child; for a child of this sort the extractor calls
\* extract_term again
ExtractChild ==
    \E c \in Ctxs :
        /\ At(c, "extract_term", "fold")
        /\ Top(c).i <= Len(Top(c).inputs)
        /\ LET child == Top(c).inputs[Top(c).i]
           IN  IF child.sort = FnName
               THEN ctx' = Call(c, "wait_child", ExtractTermFrame(child.value))
               ELSE ctx' = [ctx EXCEPT ![c].stack =
                               WithTop(c, Deliver([Top(c) EXCEPT !.pc = "wait_child"],
                                                  find_best(LockExtractor, child.value)))]
        /\ UNCHANGED <<functions, lock>>
        /\ UNCHANGED ConcFrame

\* extract_term: the `?` of the fold, a child has no best term
ExtractNone ==
    \E c \in Ctxs :
        /\ At(c, "extract_term", "none")
        /\ ctx' = Return(c, None)
        /\ UNCHANGED <<functions, lock>>
        /\ UNCHANGED ConcFrame

\* extract_term: Some((cost, termdag.app("unstable-fn", args)))
ExtractReturn ==
    \E c \in Ctxs :
        /\ At(c, "extract_term", "fold")
        /\ Top(c).i > Len(Top(c).inputs)
        /\ ctx' = Return(c, Some(Top(c).cost,
                         TermApp("unstable-fn", <<TermLit(Top(c).name)>> \o Top(c).args)))
        /\ UNCHANGED <<functions, lock>>
        /\ UNCHANGED ConcFrame

\* apply: let ValueFunction(name, args) = self.get_value(fn_value)
ApplyGetValue ==
    \E c \in Ctxs :
        /\ At(c, "apply", "start")
        /\ ctx' = Call(c, "wait_get_value", GetValueFrame(Top(c).value))
        /\ UNCHANGED <<functions, lock>>
        /\ UNCHANGED ConcFrame

\* the types and values apply hands to call_fn
ApplyTypes(frame) == SortsOf(frame.inputs) \o FnSort.inputs \o <<FnSort.output>>
ApplyValues(frame) == ValuesOf(frame.inputs) \o frame.arg_values

\* the name and types resolve to the apply primitive of this sort
ResolvesToApply(frame) ==
    frame.name = AppName /\ ApplyTypes(frame) = Apply_sorts(FnSort)

\* call_fn runs the apply primitive of this sort: a nested application
ApplyNested ==
    \E c \in Ctxs :
        /\ At(c, "apply", "call_fn")
        /\ ResolvesToApply(Top(c))
        /\ LET values == ApplyValues(Top(c))
           IN  ctx' = Call(c, "wait_call", ApplyFrame(values[1], Skip(values, 1)))
        /\ UNCHANGED <<functions, lock>>
        /\ UNCHANGED ConcFrame

\* call_fn runs a callable that is no primitive of this sort
ApplyCallee ==
    \E c \in Ctxs :
        /\ At(c, "apply", "call_fn")
        /\ ~ResolvesToApply(Top(c))
        /\ LET r == call_fn(Top(c).name, ApplyTypes(Top(c)), ApplyValues(Top(c)))
           IN  /\ r.ok
               /\ ctx' = [ctx EXCEPT ![c].stack =
                             WithTop(c, [Top(c) EXCEPT !.out = r.value, !.pc = "return"])]
        /\ UNCHANGED <<functions, lock>>
        /\ UNCHANGED ConcFrame

\* call_fn panics: the evaluation step is aborted, its frames unwound
ApplyPanic ==
    \E c \in Ctxs :
        /\ At(c, "apply", "call_fn")
        /\ ~ResolvesToApply(Top(c))
        /\ LET r == call_fn(Top(c).name, ApplyTypes(Top(c)), ApplyValues(Top(c)))
           IN  /\ ~r.ok
               /\ fatal' = r.panic
               /\ ctx' = [ctx EXCEPT ![c].stack = <<>>,
                                     ![c].result = [op |-> "apply", arg |-> ctx[c].arg,
                                                    ret |-> "panic"]]
        /\ UNCHANGED <<functions, lock, debug_assertions, unionfind, last, tc, ex>>

\* apply returns the value call_fn returned
ApplyReturn ==
    \E c \in Ctxs :
        /\ At(c, "apply", "return")
        /\ ctx' = Return(c, Top(c).out)
        /\ UNCHANGED <<functions, lock>>
        /\ UNCHANGED ConcFrame

LockNext ==
    \/ BeginStore
    \/ BeginLoad
    \/ BeginInnerValues
    \/ BeginSerializedName
    \/ BeginCanonicalize
    \/ BeginExtractTerm
    \/ BeginApply
    \/ Lock
    \/ StoreFind
    \/ StorePush
    \/ StoreReturn
    \/ GetValueRead
    \/ GetValueReturn
    \/ InnerValuesRead
    \/ InnerValuesReturn
    \/ SerializedNameGetValue
    \/ SerializedNameReturn
    \/ CanonGetValue
    \/ CanonChild
    \/ CanonStore
    \/ CanonReturn
    \/ ExtractLoad
    \/ ExtractChild
    \/ ExtractNone
    \/ ExtractReturn
    \/ ApplyGetValue
    \/ ApplyNested
    \/ ApplyCallee
    \/ ApplyPanic
    \/ ApplyReturn

SpecLock == ConcInit /\ [][LockNext]_vars

-----------------------------------------------------------------------------
(* Properties of the engine run (Spec) *)

\* the content of an entry that decides its identity: name and child values
Content(vf) == [name |-> vf.name, values |-> ValuesOf(vf.args)]

\* C1: two entries of the table have the same index iff they have the same
\* name and the same ordered child values (the sorts play no part), and the
\* handle a constructor call returns is the index of the one entry whose
\* name and child values are those of the call
C1_Dedup ==
    /\ \A i, j \in 1..Len(functions) :
          (i = j) <=> (/\ functions[i].name = functions[j].name
                       /\ ValuesOf(functions[i].args) = ValuesOf(functions[j].args))
    /\ last.op = "ctor" =>
          \A i \in 1..Len(functions) :
              (i - 1 = last.value.bits)
                  <=> Content(functions[i]) = [name |-> last.name, values |-> last.values]

\* a constructor call found an equal entry that is not the newest one
C1_Witness ==
    /\ last.op = "ctor"
    /\ Len(functions) >= 2
    /\ last.value.bits < Len(functions) - 1
    /\ Len(last.values) = 1

\* C2: the handle a store returns is in range and loads the stored name and
\* child values; the table never shrinks and no entry of it ever changes, so
\* this stays true of every handle in every later state
C2_RoundTripStable ==
    /\ [](last.op = "ctor" =>
            /\ InRange(functions, last.value)
            /\ Content(load(functions, last.value))
                   = [name |-> last.name, values |-> last.values])
    /\ [](last.op = "canonicalize" => InRange(functions, last.value))
    /\ [][/\ Len(functions') >= Len(functions)
          /\ \A i \in 1..Len(functions) : functions'[i] = functions[i]]_vars

\* a store (of a canonicalized value) appended to a table that held entries
C2_Witness ==
    /\ last.op = "canonicalize"
    /\ last.changed
    /\ Len(functions) > last.before_len
    /\ last.before_len >= 2

\* does the callable `name` take exactly these input sorts and give this output
Matches(name, input_sorts, output_sort) ==
    /\ name \in DOMAIN Callables
    /\ Callables[name].input = input_sorts
    /\ Callables[name].output = output_sort

C5_AsStated ==
    (last.op = "apply" /\ last.result.ok) =>
        Len(load(functions, last.fn).args) + Len(last.args) = Len(FnSort.inputs)

\* C5 amended: every apply that succeeds has as many call-site arguments as
\* the sort has declared inputs, and as many stored partial arguments plus
\* call-site arguments as the callable it invokes has inputs
C5_ApplyArity ==
    (last.op = "apply" /\ last.result.ok) =>
        LET vf == load(functions, last.fn)
        IN  /\ Len(last.args) = Len(FnSort.inputs)
            /\ Len(vf.args) + Len(last.args) = Len(Callables[vf.name].input)

\* an apply of a value with a stored partial argument succeeded
C5_Witness ==
    /\ last.op = "apply"
    /\ last.result.ok
    /\ Len(load(functions, last.fn).args) >= 1

\* C6 as stated: no apply of a type-checked program enters the call bridge
\* with a number of values (stored plus call-site) other than the number of
\* inputs of the callable named
C6_AsStated ==
    (last.op = "apply" /\ last.result.entered
        /\ last.result.name \in DOMAIN Callables) =>
        Len(last.result.values) = Len(Callables[last.result.name].input)

\* C6 amended: an apply that runs has exactly the declared number of
\* call-site arguments (any other call site is rejected by the type checker);
\* a constructor call site whose name is a literal with a known signature
\* runs only with P + D = F partial arguments; a value built otherwise can
\* reach the bridge with a wrong total, and then the bridge invokes nothing
\* and the step ends in the fatal error
C6_ArityStatic ==
    /\ last.op = "apply" => Len(last.args) = Len(FnSort.inputs)
    /\ last.op = "apply_rejected" =>
          (Len(last.sorts) # Len(FnSort.inputs) \/ last.sorts # FnSort.inputs)
    /\ (last.op = "ctor" /\ last.site.name_term.kind = "LitString"
           /\ last.name \in DOMAIN FuncTypes) =>
          Len(last.values) + Len(FnSort.inputs) = Len(FuncTypes[last.name].input)
    /\ (last.op = "apply" /\ last.result.entered
           /\ last.result.name \in DOMAIN Callables
           /\ Len(last.result.values) # Len(Callables[last.result.name].input)) =>
          /\ ~last.result.ok
          /\ last.result.call.calls = <<>>
          /\ fatal = "argument count mismatch"

\* a value built at a non-literal call site reached the bridge with a wrong
\* number of values
C6_Witness ==
    /\ last.op = "apply"
    /\ last.result.entered
    /\ last.result.name \in DOMAIN Callables
    /\ Len(last.result.values) # Len(Callables[last.result.name].input)
    /\ fatal # "none"

\* what the children of a value report when each is canonicalized by its sort
ChildReports(vf) ==
    [i \in 1..Len(vf.args) |->
        sort_canonicalize(vf.args[i].sort, vf.args[i].value, functions, unionfind)]

\* C7: canonicalize reports a change iff some child's own canonicalization
\* reports one, and the handle it leaves with the caller is that of the stored
\* value with the same name and, in order, each child's canonicalized value
\* paired with the sort the child had
C7_CanonicalizePropagation ==
    last.op = "canonicalize" =>
        LET vf == last.before_vf
            kids == ChildReports(vf)
        IN  /\ last.changed <=> \E i \in 1..Len(vf.args) : kids[i].changed
            /\ InRange(functions, last.value)
            /\ load(functions, last.value).name = vf.name
            /\ ValuesOf(load(functions, last.value).args)
                   = [i \in 1..Len(vf.args) |-> kids[i].value]
            /\ SortsOf(load(functions, last.value).args) = SortsOf(vf.args)

\* C7 without the sorts: the change flag, the name and the child values
C7_NameAndValues ==
    last.op = "canonicalize" =>
        LET vf == last.before_vf
            kids == ChildReports(vf)
        IN  /\ last.changed <=> \E i \in 1..Len(vf.args) : kids[i].changed
            /\ InRange(functions, last.value)
            /\ load(functions, last.value).name = vf.name
            /\ ValuesOf(load(functions, last.value).args)
                   = [i \in 1..Len(vf.args) |-> kids[i].value]

\* C7 in a build with debug assertions, where a Value carries its sort's name
C7_DebugBuild == debug_assertions => C7_CanonicalizePropagation

RECURSIVE AllRepresentatives(_)
\* every child of the stored value is its union-find representative: an
\* eq-sort child is the leader of its class, a child of this sort is itself
\* such a value
AllRepresentatives(value) ==
    LET args == load(functions, value).args
    IN  \A i \in 1..Len(args) :
           /\ is_eq_sort(args[i].sort) =>
                 find(unionfind, args[i].value.bits) = args[i].value.bits
           /\ args[i].sort = FnName => AllRepresentatives(args[i].value)

\* C8: canonicalizing a value whose children are all representatives reports
\* no change; canonicalizing the handle a canonicalize has just produced
\* (same union-find) reports no change; and every child of the value that
\* handle names is its representative
C8_CanonicalizeFixedPoint ==
    /\ \A h \in 0..(Len(functions) - 1) :
          AllRepresentatives(Value(FnName, h)) =>
              ~canonicalize(Value(FnName, h), functions, unionfind).changed
    /\ last.op = "canonicalize" =>
          /\ ~canonicalize(last.value, functions, unionfind).changed
          /\ AllRepresentatives(last.value)

\* C8 in a build with debug assertions, where a Value carries its sort's name
C8_DebugBuild == debug_assertions => C8_CanonicalizeFixedPoint

\* the first part of C8 alone
C8_CanonicalUnchanged ==
    \A h \in 0..(Len(functions) - 1) :
        AllRepresentatives(Value(FnName, h)) =>
            ~canonicalize(Value(FnName, h), functions, unionfind).changed

\* the table holds a value with a partial argument of an equality sort
HoldsEqSortArgument ==
    \E i \in 1..Len(functions) :
        \E k \in 1..Len(functions[i].args) : is_eq_sort(functions[i].args[k].sort)

\* C13: whenever the table holds a value with a partial argument of an
\* equality sort, is_eq_container_sort() of the function sort is true
C13_EqContainerCoverage ==
    HoldsEqSortArgument => is_eq_container_sort(FnSort)

\* C14: a constructor call never fails, whatever the name and the values;
\* the handle it returns is one of this sort's, and the value it loads has
\* the name of the call and the values of the call in call order, each paired
\* with the sort the call site resolved for it
C14_CtorUnconditional ==
    /\ last.op # "ctor_panic"
    /\ last.op = "ctor" =>
          LET vf == load(functions, last.value)
          IN  /\ fatal = "none"
              /\ last.value = Value(FnName, last.value.bits)
              /\ InRange(functions, last.value)
              /\ vf.name = last.name
              /\ ValuesOf(vf.args) = last.values
              /\ SortsOf(vf.args) = last.site.sorts

\* C14 without the sorts: the call never fails and the value loaded has the
\* name and the values of the call
C14_NameAndValues ==
    /\ last.op # "ctor_panic"
    /\ last.op = "ctor" =>
          LET vf == load(functions, last.value)
          IN  /\ fatal = "none"
              /\ InRange(functions, last.value)
              /\ vf.name = last.name
              /\ ValuesOf(vf.args) = last.values

\* C14 in a build with debug assertions, where a Value carries its sort's name
C14_DebugBuild == debug_assertions => C14_CtorUnconditional

\* C17: an apply without an evaluation context ends in the fatal error of
\* the missing context; the stored function value was not read and the call
\* bridge not entered (the result holds no name, no values, no call), no
\* value is returned, and the step leaves the table as it was
C17_ContextViolation ==
    /\ []((last.op = "apply" /\ ~last.egraph) =>
             /\ fatal = "unstable-app is not supported yet in facts."
             /\ ~last.result.ok
             /\ ~last.result.entered
             /\ DOMAIN last.result = {"ok", "panic", "entered"})
    /\ [][(last'.op = "apply" /\ ~last'.egraph) => functions' = functions]_vars

\* an apply without a context of a value that an apply with a context runs
C17_Witness ==
    /\ last.op = "apply"
    /\ ~last.egraph
    /\ fatal # "none"
    /\ Len(load(functions, last.fn).args) = 1
    /\ Matches(load(functions, last.fn).name,
               SortsOf(load(functions, last.fn).args) \o FnSort.inputs,
               FnSort.output)

\* C18: a canonicalize that reports no change leaves the caller's handle and
\* the table as they were; no canonicalize changes an entry, and every entry
\* it appends has a content the table did not hold; on a value with no child
\* of this sort it appends at most one entry, the canonicalized tuple, and
\* only when the table did not hold that tuple
C18_CanonicalizeFrame ==
    [][last'.op = "canonicalize" =>
          LET vf == last'.before_vf
              kids == ChildReports(vf)
              tuple == ValueFunction(vf.name,
                           [k \in 1..Len(vf.args) |->
                               [sort |-> vf.args[k].sort, value |-> kids[k].value]])
              appended == Len(functions') - Len(functions)
          IN  /\ ~last'.changed =>
                    (last'.value = last'.before /\ functions' = functions)
              /\ appended >= 0
              /\ \A i \in 1..Len(functions) : functions'[i] = functions[i]
              /\ \A i \in (Len(functions) + 1)..Len(functions') :
                     ~Contains(functions, functions'[i])
              /\ (\A k \in 1..Len(vf.args) : vf.args[k].sort # FnName) =>
                     /\ appended <= 1
                     /\ appended = 1 <=> ~Contains(functions, tuple)
                     /\ appended = 1 => vf_eq(functions'[Len(functions')], tuple)
      ]_vars

\* a canonicalize, after a union, of a value whose eq-sort child is the leader
\* of its class: it reported no change
C18_Witness ==
    /\ last.op = "canonicalize"
    /\ ~last.changed
    /\ last.before_len >= 2
    /\ Len(last.before_vf.args) = 1
    /\ is_eq_sort(last.before_vf.args[1].sort)
    /\ unionfind[1] = 0

-----------------------------------------------------------------------------
(* Properties of the type checker (SpecTC) *)

\* the call site names, by a string literal, a function with a full signature
KnownSignature ==
    /\ tc.phase = "checked"
    /\ Len(tc.arguments) >= 2
    /\ tc.arguments[1].kind = "LitString"
    /\ tc.arguments[1].sym \in DOMAIN tc.func_types

\* P + D = n, the declared output is O, and the declared inputs are the last
\* D inputs of the full signature
Fits ==
    LET func_type == tc.func_types[tc.arguments[1].sym]
        P == Len(tc.arguments) - 2
        D == Len(tc.function.inputs)
        n == Len(func_type.input)
    IN  /\ P + D = n
        /\ tc.function.output = func_type.output
        /\ \A i \in 1..D : tc.function.inputs[i] = func_type.input[n - D + i]

\* C4: at a call site whose name is a literal with a known full signature the
\* constraints can be satisfied only if P + D = n, the declared output is O
\* and the declared inputs are the last D inputs of the signature; for every
\* other declared sort the constraints are a single mismatch diagnostic
C4_CtorInference ==
    KnownSignature =>
        /\ Satisfiable(tc.constraints) => Fits
        /\ ~Fits =>
              /\ Len(tc.constraints) = 1
              /\ tc.constraints[1].kind = "impossible"
              /\ tc.constraints[1].error \in {"ArityMismatch", "FunctionMismatch"}
        /\ Fits => \A i \in 1..Len(tc.constraints) : tc.constraints[i].kind = "assign"

\* a call site with a partial argument is accepted against a declared sort
\* with an input
C4_Witness ==
    /\ KnownSignature
    /\ Satisfiable(tc.constraints)
    /\ Len(tc.arguments) = 3
    /\ Len(tc.function.inputs) >= 1
    /\ tc.func_types["f"].input[1] # tc.func_types["f"].input[2]

\* C15: on the known-signature path, when the declared sort fits, the
\* constraints are P + 1 assignments: the i-th binds the i-th partial-argument
\* term to the i-th input sort of the full signature, the last binds the
\* result term to the function sort; on the fallback path (two terms or more,
\* the name no string literal or a literal without a signature) they are
\* exactly two: the first term bound to String and the result term bound to
\* the function sort, none on a partial-argument term
C15_EmittedConstraints ==
    (tc.phase = "checked" /\ Len(tc.arguments) >= 2) =>
        LET n == Len(tc.arguments)
            P == n - 2
            result == assign(tc.arguments[n], tc.function.name)
        IN  IF KnownSignature
            THEN Fits =>
                   /\ Len(tc.constraints) = P + 1
                   /\ \A i \in 1..P :
                          tc.constraints[i] =
                              assign(tc.arguments[i + 1],
                                     tc.func_types[tc.arguments[1].sym].input[i])
                   /\ tc.constraints[P + 1] = result
            ELSE tc.constraints = <<assign(tc.arguments[1], "String"), result>>

\* a fitting call site with two partial arguments, the first two inputs of
\* the full signature being different sorts
C15_Witness ==
    /\ KnownSignature
    /\ Fits
    /\ Len(tc.arguments) = 4
    /\ Len(tc.constraints) = 3
    /\ tc.func_types["f"].input[1] # tc.func_types["f"].input[2]
    /\ Len(tc.function.inputs) = 1

\* C16: a call site of fewer than two terms gets the single diagnostic
\* ArityMismatch with expected = 2; a call site whose name is a literal with a
\* known full signature and P + D # F gets the single diagnostic
\* ArityMismatch with expected = D + F + 1, also when the signatures do not
\* match either (the count is decided first)
C16_ArityDiagnostics ==
    tc.phase = "checked" =>
        /\ Len(tc.arguments) < 2 => tc.constraints = <<ArityMismatch(2)>>
        /\ KnownSignature =>
              LET P == Len(tc.arguments) - 2
                  D == Len(tc.function.inputs)
                  F == Len(tc.func_types[tc.arguments[1].sym].input)
              IN  P + D # F => tc.constraints = <<ArityMismatch(D + F + 1)>>

\* a call site that fails both checks: P + D # F and the declared output is
\* not the output of the signature
C16_Witness ==
    /\ KnownSignature
    /\ Len(tc.arguments) - 2 + Len(tc.function.inputs) # Len(tc.func_types["f"].input)
    /\ tc.function.output # tc.func_types["f"].output
    /\ Len(tc.arguments) = 3
    /\ tc.constraints[1].error = "ArityMismatch"

-----------------------------------------------------------------------------
(* Properties of extraction (SpecExtract) *)

RECURSIVE SumCosts(_, _, _)
\* the sum of the costs the extractor has for the children from i on
SumCosts(extractor, args, i) ==
    IF i > Len(args) THEN 0
    ELSE extractor[args[i].value].cost + SumCosts(extractor, args, i + 1)

\* C9: extract_term gives nothing when the extractor has no best term for
\* some child; else it gives the term unstable-fn applied to the name literal
\* followed by the children's terms in order, at a cost of 1 plus the sum of
\* the children's costs, held at the largest cost when the sum goes past it
C9_ExtractionCost ==
    ex.phase = "done" =>
        LET args == load(functions, ex.value).args
            name == load(functions, ex.value).name
        IN  IF \E i \in 1..Len(args) : ~ex.extractor[args[i].value].some
            THEN ex.result = None
            ELSE LET total == 1 + SumCosts(ex.extractor, args, 1)
                 IN  /\ ex.result.some
                     /\ ex.result.cost = IF total > UsizeMax THEN UsizeMax ELSE total
                     /\ ex.result.term.head = "unstable-fn"
                     /\ ex.result.term.args =
                           <<TermLit(name)>>
                               \o [i \in 1..Len(args) |-> TermOf(args[i].value)]

\* an extraction of two children whose costs add up past the largest cost
C9_Witness ==
    /\ ex.phase = "done"
    /\ ex.result.some
    /\ Len(load(functions, ex.value).args) = 2
    /\ ex.result.cost = UsizeMax
    /\ \A i \in 1..2 : ex.extractor[load(functions, ex.value).args[i].value].cost
                          \in {1, UsizeMax - 1}

-----------------------------------------------------------------------------
(* Properties of the contexts on one store (SpecConc) *)

\* the context has a finished operation `op` whose result it still holds
Finished(c, op) == ~Busy(c) /\ ctx[c].result.op = op

\* C10: under every interleaving of the contexts' store, load and
\* canonicalize steps the table holds no two entries of equal content; a
\* finished store holds the handle of the entry with its value's content, so
\* two stores hold the same handle iff their values have the same content; a
\* finished load holds what its handle names now; a finished canonicalize holds
\* a handle in range; and no step changes or removes an entry of the table
C10_ConcurrentStore ==
    /\ [](\A i, j \in 1..Len(functions) :
              Content(functions[i]) = Content(functions[j]) => i = j)
    /\ [](\A c \in Ctxs :
              /\ Finished(c, "store") =>
                    /\ InRange(functions, ctx[c].result.ret)
                    /\ Content(load(functions, ctx[c].result.ret))
                           = Content(ctx[c].result.arg)
              /\ Finished(c, "load") =>
                    ctx[c].result.ret = load(functions, ctx[c].result.arg)
              /\ Finished(c, "canonicalize") =>
                    InRange(functions, ctx[c].result.ret.value))
    /\ []((Finished(1, "store") /\ Finished(2, "store")) =>
              ((ctx[1].result.ret = ctx[2].result.ret)
                  <=> Content(ctx[1].result.arg) = Content(ctx[2].result.arg)))
    /\ [][/\ Len(functions') >= Len(functions)
          /\ \A i \in 1..Len(functions) : functions'[i] = functions[i]]_vars

\* a context waits for the lock to store a value while the other, holding the
\* lock, has just appended a value of the same content
C10_Witness ==
    /\ At(1, "store", "lock")
    /\ At(2, "store", "unlock")
    /\ lock = 2
    /\ Top(2).i = Len(functions) - 1
    /\ Content(Top(1).vf) = Content(Top(2).vf)
    /\ Len(Top(1).vf.args) = 1

-----------------------------------------------------------------------------
(* Properties of the operations, call by call (SpecLock) *)

\* the frame is inside a critical section: between lock() and the guard's drop
Critical(frame) ==
    /\ frame.op \in {"store", "get_value", "inner_values"}
    /\ frame.pc \in {"find", "push", "read", "unlock"}

\* C11: no context reaches a lock() of the store while it holds the store's
\* guard itself; the guard is held only by the innermost call of its holder,
\* inside store, get_value or inner_values, so canonicalize holds nothing
\* while it canonicalizes its children and when it stores again, and apply
\* holds nothing while the call it makes runs; and an operation in progress
\* always has a next step (it never blocks on its own guard)
C11_LockNotReentered ==
    /\ \A c \in Ctxs : (Busy(c) /\ Top(c).pc = "lock") => lock # c
    /\ \A c \in Ctxs :
          lock = c =>
              /\ Busy(c)
              /\ Critical(Top(c))
              /\ \A k \in 1..(Len(Stack(c)) - 1) : ~Critical(Stack(c)[k])
    /\ \A c \in Ctxs : Busy(c) => ENABLED LockNext

\* the context is about to lock the store for the re-store of a canonicalize
\* whose child, a value of this same sort, it has just canonicalized
C11_Witness ==
    /\ Len(Stack(LockCtx)) = 2
    /\ Stack(LockCtx)[1].op = "canonicalize"
    /\ Stack(LockCtx)[1].pc = "wait_store"
    /\ Len(Stack(LockCtx)[1].inputs) = 1
    /\ Stack(LockCtx)[1].inputs[1].sort = FnName
    /\ At(LockCtx, "store", "lock")
    /\ lock = 0

\* the terms of the children the fold of extract_term has taken so far
ChildTerm(child, term) ==
    IF child.sort = FnName
    THEN term.kind = "App" /\ term.head = "unstable-fn"
    ELSE term = TermOf(child.value)

\* C12: a finished inner_values holds exactly the partial arguments of the
\* value its handle loads, each with its sort, in stored order; the list a
\* canonicalize in progress walks and the list an extract_term in progress
\* folds are that same list, visited from the first child on in order; and a
\* finished extract_term holds one term per child after the name, in order
C12_ChildValues ==
    \A c \in Ctxs :
        /\ Finished(c, "inner_values") =>
              ctx[c].result.ret = load(functions, ctx[c].result.arg).args
        /\ \A k \in 1..Len(Stack(c)) :
              LET frame == Stack(c)[k]
              IN  /\ (frame.op = "canonicalize"
                        /\ frame.pc \in {"loop", "wait_child", "wait_store"}) =>
                        /\ frame.inputs = load(functions, frame.value).args
                        /\ Len(frame.new_outputs) = frame.i - 1
                        /\ SortsOf(frame.new_outputs)
                               = SortsOf(Take(frame.inputs, frame.i - 1))
                  /\ (frame.op = "extract_term"
                        /\ frame.pc \in {"fold", "wait_child", "none"}) =>
                        /\ frame.inputs = load(functions, frame.value).args
                        /\ Len(frame.args) = frame.i - 1
                        /\ \A j \in 1..Len(frame.args) :
                               ChildTerm(frame.inputs[j], frame.args[j])
        /\ (Finished(c, "extract_term") /\ ctx[c].result.ret.some) =>
              LET args == load(functions, ctx[c].result.arg).args
                  terms == ctx[c].result.ret.term.args
              IN  /\ Len(terms) = 1 + Len(args)
                  /\ \A j \in 1..Len(args) : ChildTerm(args[j], terms[j + 1])

\* an inner_values has returned the two children, of different sorts, of a
\* value that is not the first of the table
C12_Witness ==
    /\ Finished(LockCtx, "inner_values")
    /\ ctx[LockCtx].result.arg.bits >= 1
    /\ Len(ctx[LockCtx].result.ret) = 2
    /\ ctx[LockCtx].result.ret[1].sort = "T"
    /\ ctx[LockCtx].result.ret[2].sort = "i64"

====
